---- MODULE Spec2Model ----
(***************************************************************************)
(* Model of pcm_vis (src/pcm_vis/src/main.rs): the testing harness of the  *)
(* partial curve matching engine.  It covers the two verifiers             *)
(* (check_corner_consistency, check_steps), one trial (run_test), the case *)
(* store (list_files_in_subfolder, write_new_testcase, read_cases) and the *)
(* driver loop (main).                                                     *)
(*                                                                         *)
(* Reals (f64) are modelled in fixed point: a value v stands for the real  *)
(* v / Ticks, so ONE = Ticks stands for 1.0 and EPS is a number of ticks.  *)
(* Arithmetic is exact; f64 rounding is not modelled.                      *)
(***************************************************************************)
EXTENDS Integers, Sequences, FiniteSets, TLC

VARIABLES
    pc,          \* position of the program being run
    input,       \* arguments of the function being verified  
    output,      \* its return value
    discover,    \* const DISCOVER (build-time mode)
    dirExists,   \* whether the directory testdata exists
    files,       \* testdata: file name -> content
    unreadable,  \* names of the files of testdata that cannot be opened
    dirOrder,    \* the order in which read_dir yields the entries
    disk,        \* the IO outcome of the store's calls (main: of the whole run)
    cases,       \* main: the Vec<State> the loop runs over
    idx,         \* main: number of cases the loop has taken (store: calls made)
    ran,         \* history: the indices run_test was called with, in order
    res,         \* main: res_test of the last trial
    persistRes,  \* <<the Result of write_new_testcase>> of the last step, or <<>>
    printed,     \* what the last step wrote to stdout
    created,     \* history: per write_new_testcase call, the name created and ok
    extOps       \* history: number of external removals from testdata

vars == <<pc, input, output, discover, dirExists, files, unreadable, dirOrder,
          disk, cases, idx, ran, res, persistRes, printed, created, extOps>>

progVars == <<discover, dirExists, files, unreadable, dirOrder, disk, cases,
              idx, ran, res, persistRes, printed, created, extOps>>

----------------------------------------------------------------------------
(* Bounds of the model. *)

\* Ticks per unit: the resolution of the fixed-point reals.
Ticks == 8
\* FSDs have at most MaxCells lattice vertices (n * m <= MaxCells); the 2 x 2
\* diagram is the smallest whose vertices have edges of both axes.
MaxCells == 4
\* Steps sequences have at most MaxSteps points.
MaxSteps == 2
\* Curve points have coordinates 0 or MaxCoord (ticks).
MaxCoord == 3
\* The match threshold eps ranges over 0..MaxEps (ticks).
MaxEps == 2
\* Number of write_new_testcase calls and external removals of the store runs.
MaxCalls == 4

(* Program constants. *)

\* pcm::prelude::EPS, in ticks.
EPS == 2
\* const RUN_COUNT: usize = 10
RUN_COUNT == 10

ONE == Ticks

----------------------------------------------------------------------------
(* Result<(), String>: the error message is kept as a tuple of its parts. *)

Ok == [ok |-> TRUE, err |-> <<>>]
Err(e) == [ok |-> FALSE, err |-> e]

Min(a, b) == IF a <= b THEN a ELSE b

----------------------------------------------------------------------------
(* Free-space diagrams.  An FSD has n, m, dims (per axis: width, height),  *)
(* segs (axis, x, y) -> Option<LineBoundary> and corners (i, j) -> bool.   *)
(* Indices are 0-based as in the source.                                   *)

NoBoundary == [some |-> FALSE, a |-> 0, b |-> 0]
Boundary(a, b) == [some |-> TRUE, a |-> a, b |-> b]

\* dims as the engine lays the edges out: axis 0 has n columns of m-1 edges,
\* axis 1 has m rows of n-1 edges.
Dims(n, m) == << <<n, m - 1>>, <<m, n - 1>> >>

EdgeIds(n, m) ==
    {<<0, x, y>> : x \in 0..(n - 1), y \in 0..(m - 2)}
        \cup {<<1, x, y>> : x \in 0..(m - 1), y \in 0..(n - 2)}

\* Starts at 0, inside (0,EPS), at EPS; ends below 1-EPS, at 1-EPS, at 1.
BoundaryVals ==
    {NoBoundary}
        \cup {Boundary(a, b) : a \in 0..EPS, b \in {ONE - EPS - 1, ONE - EPS, ONE}}

Shapes(cells) == {nm \in (1..cells) \X (1..cells) : nm[1] * nm[2] <= cells}

MakeFSD(n, m, s, c) ==
    [n |-> n, m |-> m, dims |-> Dims(n, m), segs |-> s, corners |-> c]

SegsOfShape(n, m) == [EdgeIds(n, m) -> BoundaryVals]

CornersOfShape(n, m) == [(0..(n - 1)) \X (0..(m - 1)) -> BOOLEAN]

FSDsOfShape(n, m) ==
    {MakeFSD(n, m, s, c) : s \in SegsOfShape(n, m), c \in CornersOfShape(n, m)}

FSDs(cells) == UNION {FSDsOfShape(nm[1], nm[2]) : nm \in Shapes(cells)}

\* CheckCell without the two "boundary missing" branches of the corner case
\* (lines 227-229 and 236-238 left out).
CheckCellNoMissing(fsd, i, j, axis) ==
    LET h == fsd.dims[axis + 1][2]
        xy == IF axis = 0 THEN <<i, j>> ELSE <<j, i>>
        x == xy[1]
        y == xy[2]
        hasCurr == y < h
        hasPrev == y > 0
        curr == <<axis, x, y>>
        prev == <<axis, x, y - 1>>
        has_corner == fsd.corners[<<i, j>>]
    IN  IF ~has_corner
        THEN IF hasCurr /\ fsd.segs[curr].some /\ fsd.segs[curr].a = 0
             THEN Err(<<"StartExistsNoCorner", curr, <<i, j>>>>)
             ELSE IF hasPrev /\ fsd.segs[prev].some /\ fsd.segs[prev].b = ONE
             THEN Err(<<"EndExistsNoCorner", prev, <<i, j>>>>)
             ELSE Ok
        ELSE IF hasCurr /\ fsd.segs[curr].some /\ fsd.segs[curr].a >= EPS
             THEN Err(<<"StartMissingAtCorner", curr, <<i, j>>>>)
             ELSE IF hasPrev /\ fsd.segs[prev].some /\ fsd.segs[prev].b < ONE - EPS
             THEN Err(<<"EndMissingAtCorner", prev, <<i, j>>>>)
             ELSE Ok

\* The body of the three nested loops of check_corner_consistency for one
\* (j, i, axis): the first violation, or Ok.
CheckCell(fsd, i, j, axis) ==
    LET h == fsd.dims[axis + 1][2]
        xy == IF axis = 0 THEN <<i, j>> ELSE <<j, i>>
        x == xy[1]
        y == xy[2]
        hasCurr == y < h
        hasPrev == y > 0
        curr == <<axis, x, y>>
        prev == <<axis, x, y - 1>>
        has_corner == fsd.corners[<<i, j>>]
    IN  IF ~has_corner
        THEN IF hasCurr /\ fsd.segs[curr].some /\ fsd.segs[curr].a = 0
             THEN Err(<<"StartExistsNoCorner", curr, <<i, j>>>>)
             ELSE IF hasPrev /\ fsd.segs[prev].some /\ fsd.segs[prev].b = ONE
             THEN Err(<<"EndExistsNoCorner", prev, <<i, j>>>>)
             ELSE Ok
        ELSE IF hasCurr /\ fsd.segs[curr].some /\ fsd.segs[curr].a >= EPS
             THEN Err(<<"StartMissingAtCorner", curr, <<i, j>>>>)
             ELSE IF hasCurr /\ ~fsd.segs[curr].some
             THEN Err(<<"BoundaryMissingAtCorner", curr, <<i, j>>>>)
             ELSE IF hasPrev /\ fsd.segs[prev].some /\ fsd.segs[prev].b < ONE - EPS
             THEN Err(<<"EndMissingAtCorner", prev, <<i, j>>>>)
             ELSE IF hasPrev /\ ~fsd.segs[prev].some
             THEN Err(<<"BoundaryMissingAtCorner", prev, <<i, j>>>>)
             ELSE Ok

\* The loops from iteration k on: j outer, i inner, axis 0 then 1.
RECURSIVE ScanCells(_, _)
ScanCells(fsd, k) ==
    IF k >= fsd.n * fsd.m * 2
    THEN Ok
    ELSE LET j == k \div (2 * fsd.n)
             i == (k \div 2) % fsd.n
             axis == k % 2
             r == CheckCell(fsd, i, j, axis)
         IN  IF ~r.ok THEN r ELSE ScanCells(fsd, k + 1)

check_corner_consistency(fsd) == ScanCells(fsd, 0)

----------------------------------------------------------------------------
(* Curves and Steps.  A point is <<x, y>> in ticks; a curve is a sequence  *)
(* of points, c[k + 1] being the source's c[k].  A step is <<u, v>> in     *)
(* half units: u = 3 stands for the parameter 1.5 (index 1, offset 0.5).   *)

Points == {<<0, 0>>, <<MaxCoord, 0>>, <<0, MaxCoord>>}

Curves == {<<p, q>> : p \in Points, q \in Points}

\* Steps of curves of two points: parameters 0, 0.5 and 1 on each curve, so
\* every index, and every index + 1 where the offset is not 0, is in bounds.
StepVals == (0..2) \X (0..2)

StepSeqsUpTo(k) == UNION {[1..len -> StepVals] : len \in 1..k}

StepSeqs == StepSeqsUpTo(MaxSteps)

\* _i.floor() and _i - i of a parameter given in half units.
Floor(t) == t \div 2
Offset(t) == t - 2 * Floor(t)

\* Twice the point of curve c at parameter t (lines 267-273): the vertex when
\* the offset is 0, else (1 - off) * c[i] + off * c[i + 1].
PointAt(c, t) ==
    LET i == Floor(t)
        off == Offset(t)
    IN  IF off = 0
        THEN <<2 * c[i + 1][1], 2 * c[i + 1][2]>>
        ELSE <<(2 - off) * c[i + 1][1] + off * c[i + 2][1],
               (2 - off) * c[i + 1][2] + off * c[i + 2][2]>>

\* The square of p.distance(q).
SqDistance(p, q) == (p[1] - q[1]) * (p[1] - q[1]) + (p[2] - q[2]) * (p[2] - q[2])

\* The monotonicity loop comparing only the first coordinates.
RECURSIVE MonotoneScanFirstOnly(_, _)
MonotoneScanFirstOnly(steps, k) ==
    IF k >= Len(steps)
    THEN Ok
    ELSE IF steps[k][1] > steps[k + 1][1]
         THEN Err(<<"Decreasing", steps[k], steps[k + 1]>>)
         ELSE MonotoneScanFirstOnly(steps, k + 1)

\* The monotonicity loop (lines 254-258) from the k-th pair on.
RECURSIVE MonotoneScan(_, _)
MonotoneScan(steps, k) ==
    IF k >= Len(steps)
    THEN Ok
    ELSE IF steps[k][1] > steps[k + 1][1] \/ steps[k][2] > steps[k + 1][2]
         THEN Err(<<"Decreasing", steps[k], steps[k + 1]>>)
         ELSE MonotoneScan(steps, k + 1)

\* The distance loop (lines 261-279) from the k-th step on.  Points are
\* doubled, so d < eps + EPS is compared as (2d)^2 < (2 (eps + EPS))^2; both
\* sides of the original comparison are >= 0.
RECURSIVE DistanceScan(_, _, _, _, _)
DistanceScan(c1, c2, steps, eps, k) ==
    IF k > Len(steps)
    THEN Ok
    ELSE LET p == PointAt(c1, steps[k][1])
             q == PointAt(c2, steps[k][2])
             dd == SqDistance(p, q)
             bound == 2 * (eps + EPS)
         IN  IF ~(dd < bound * bound)
             THEN Err(<<"Distance", dd, steps[k], eps>>)
             ELSE DistanceScan(c1, c2, steps, eps, k + 1)

check_steps(c1, c2, steps, eps) ==
    LET mono == MonotoneScan(steps, 1)
    IN  IF ~mono.ok THEN mono ELSE DistanceScan(c1, c2, steps, eps, 1)

----------------------------------------------------------------------------
(* One trial: run_test.  The engine is external: what FSD::new, pcm_steps  *)
(* and check_pcm return are inputs (eng), and so is whether each of the    *)
(* four rendering calls succeeds (rend).  run_test yields its Result, the  *)
(* calls it made, in order, and what it printed.                           *)

NoSteps == [kind |-> "none", val |-> <<>>]
StepsError == [kind |-> "err", val |-> <<>>]
SomeSteps(s) == [kind |-> "some", val |-> s]

\* The calls of run_test in program order (lines 288-305).
TrialCalls ==
    <<"draw_curves", "FSD_new", "check_corner_consistency", "draw_fsd", "to_rsd",
      "draw_rsd", "pcm_steps", "draw_path", "check_pcm", "check_steps">>

\* run_test returns r after its first n calls; said tells whether the
\* println of line 300 was reached.
Returned(r, n, said, partial) ==
    [res |-> r,
     calls |-> SubSeq(TrialCalls, 1, n),
     printed |-> IF said THEN << <<"partial", partial>> >> ELSE <<>>]

\* run_test with `?` after each rendering call.
run_test_render_checked(state, eng, rend) ==
    IF ~rend.curves
    THEN Returned(Err(<<"RenderError", "draw_curves">>), 1, FALSE, eng.partial)
    ELSE IF ~check_corner_consistency(eng.fsd).ok
    THEN Returned(check_corner_consistency(eng.fsd), 3, FALSE, eng.partial)
    ELSE IF ~rend.fsd
    THEN Returned(Err(<<"RenderError", "draw_fsd">>), 4, FALSE, eng.partial)
    ELSE IF ~rend.rsd
    THEN Returned(Err(<<"RenderError", "draw_rsd">>), 6, FALSE, eng.partial)
    ELSE IF eng.steps.kind = "err"
    THEN Returned(Err(<<"EngineError">>), 7, FALSE, eng.partial)
    ELSE IF ~rend.path
    THEN Returned(Err(<<"RenderError", "draw_path">>), 8, FALSE, eng.partial)
    ELSE IF ~eng.partial
    THEN Returned(Ok, 9, TRUE, eng.partial)
    ELSE IF eng.steps.kind = "none"
    THEN Returned(Err(<<"ShouldFindSteps">>), 9, TRUE, eng.partial)
    ELSE Returned(check_steps(state.ps, state.qs, eng.steps.val, state.eps),
                  10, TRUE, eng.partial)

\* run_test that validates the witness whenever there is one, whatever
\* check_pcm says.
run_test_validates_any_witness(state, eng, rend) ==
    IF ~check_corner_consistency(eng.fsd).ok
    THEN Returned(check_corner_consistency(eng.fsd), 3, FALSE, eng.partial)
    ELSE IF eng.steps.kind = "err"
    THEN Returned(Err(<<"EngineError">>), 7, FALSE, eng.partial)
    ELSE IF eng.steps.kind = "none"
    THEN IF eng.partial
         THEN Returned(Err(<<"ShouldFindSteps">>), 9, TRUE, eng.partial)
         ELSE Returned(Ok, 9, TRUE, eng.partial)
    ELSE Returned(check_steps(state.ps, state.qs, eng.steps.val, state.eps),
                  10, TRUE, eng.partial)

\* run_test (lines 285-309).  The Results of the rendering calls are dropped,
\* so rend decides nothing.
run_test(state, eng, rend) ==
    IF ~check_corner_consistency(eng.fsd).ok
    THEN Returned(check_corner_consistency(eng.fsd), 3, FALSE, eng.partial)
    ELSE IF eng.steps.kind = "err"
    THEN Returned(Err(<<"EngineError">>), 7, FALSE, eng.partial)
    ELSE IF ~eng.partial
    THEN Returned(Ok, 9, TRUE, eng.partial)
    ELSE IF eng.steps.kind = "none"
    THEN Returned(Err(<<"ShouldFindSteps">>), 9, TRUE, eng.partial)
    ELSE Returned(check_steps(state.ps, state.qs, eng.steps.val, state.eps),
                  10, TRUE, eng.partial)

----------------------------------------------------------------------------
(* The case store.  testdata is dirExists and files (name -> bytes).  The  *)
(* outcome of the IO calls of one operation is an input io:                *)
(*   "ok"          every call succeeds                                     *)
(*   "mkdir_err"   fs::create_dir fails although the directory is absent   *)
(*   "list_err"    fs::read_dir (or an entry of it) fails                  *)
(*   "create_err"  File::create fails                                      *)
(*   "write_err"   File::create succeeds and write_all fails               *)
(* fs::create_dir on an existing directory fails under every outcome.      *)

IOOutcomes == {"ok", "mkdir_err", "list_err", "create_err", "write_err"}

IoOk(v) == [ok |-> TRUE, err |-> <<>>, val |-> v]
IoErr(e) == [ok |-> FALSE, err |-> e, val |-> <<>>]

\* format!("case_{n}.bin")
CaseName(n) == <<"case_", n, ".bin">>

\* bincode::serialize(&state) and what File::create leaves of a record when
\* write_all fails.
Serialize(state) == <<"bincode", state.ps, state.qs, state.eps>>
Truncated == <<"bincode">>

\* bincode::deserialize(&buffer)
Deserialize(bytes) ==
    IF Len(bytes) = 4 /\ bytes[1] = "bincode"
    THEN IoOk([ps |-> bytes[2], qs |-> bytes[3], eps |-> bytes[4]])
    ELSE IoErr(<<"ParseError">>)

\* The names of S by ascending number.
AscendingNames(S) ==
    [k \in 1..Cardinality(S) |->
        CHOOSE f \in S : Cardinality({g \in S : g[2] < f[2]}) = k - 1]

Reverse(s) == [k \in 1..Len(s) |-> s[Len(s) + 1 - k]]

\* The entries of testdata in the order read_dir yields them.
ReadDir(fs, order) ==
    IF order = "asc"
    THEN AscendingNames(DOMAIN fs)
    ELSE Reverse(AscendingNames(DOMAIN fs))

list_files_in_subfolder(exists, fs, order, io) ==
    IF ~exists \/ io = "list_err"
    THEN IoErr(<<"IOError", "read_dir">>)
    ELSE IoOk(ReadDir(fs, order))

\* File::create(name) followed by write_all(bytes): name is created, or
\* truncated when it exists, and holds bytes.
WriteFile(fs, name, bytes) ==
    [f \in DOMAIN fs \cup {name} |-> IF f = name THEN bytes ELSE fs[f]]

\* write_new_testcase with `fs::create_dir("testdata")?`: an existing
\* directory is an error.
write_new_testcase_strict_mkdir(exists, fs, order, state, io) ==
    LET listed == list_files_in_subfolder(exists \/ io # "mkdir_err", fs, order, io)
        name == CaseName(Len(listed.val))
    IN  IF exists \/ io = "mkdir_err"
        THEN [exists |-> exists, files |-> fs, name |-> <<>>,
              res |-> Err(<<"IOError", "create_dir">>)]
        ELSE IF ~listed.ok
        THEN [exists |-> TRUE, files |-> fs, name |-> <<>>, res |-> Err(listed.err)]
        ELSE IF io = "create_err"
        THEN [exists |-> TRUE, files |-> fs, name |-> <<>>,
              res |-> Err(<<"IOError", "create">>)]
        ELSE IF io = "write_err"
        THEN [exists |-> TRUE, files |-> WriteFile(fs, name, Truncated),
              name |-> name, res |-> Err(<<"IOError", "write_all">>)]
        ELSE [exists |-> TRUE, files |-> WriteFile(fs, name, Serialize(state)),
              name |-> name, res |-> Ok]

\* write_new_testcase: the directory and files it leaves, the name it
\* created (<<>> when none) and the Result it returns.
write_new_testcase(exists, fs, order, state, io) ==
    LET exists1 == exists \/ io # "mkdir_err"
        listed == list_files_in_subfolder(exists1, fs, order, io)
        name == CaseName(Len(listed.val))
    IN  IF ~listed.ok
        THEN [exists |-> exists1, files |-> fs, name |-> <<>>, res |-> Err(listed.err)]
        ELSE IF io = "create_err"
        THEN [exists |-> exists1, files |-> fs, name |-> <<>>,
              res |-> Err(<<"IOError", "create">>)]
        ELSE IF io = "write_err"
        THEN [exists |-> exists1, files |-> WriteFile(fs, name, Truncated),
              name |-> name, res |-> Err(<<"IOError", "write_all">>)]
        ELSE [exists |-> exists1, files |-> WriteFile(fs, name, Serialize(state)),
              name |-> name, res |-> Ok]

\* The loop of read_cases, skipping a record it cannot open or parse.
RECURSIVE ReadRecordsLenient(_, _, _, _, _)
ReadRecordsLenient(fs, locked, listing, k, result) ==
    IF k > Len(listing)
    THEN IoOk(result)
    ELSE IF listing[k] \in locked \/ ~Deserialize(fs[listing[k]]).ok
    THEN ReadRecordsLenient(fs, locked, listing, k + 1, result)
    ELSE ReadRecordsLenient(fs, locked, listing, k + 1,
                            Append(result, Deserialize(fs[listing[k]]).val))

\* The loop of read_cases (lines 358-364) from the k-th listed file on,
\* result holding the States pushed so far.
RECURSIVE ReadRecords(_, _, _, _, _)
ReadRecords(fs, locked, listing, k, result) ==
    IF k > Len(listing)
    THEN IoOk(result)
    ELSE IF listing[k] \in locked
    THEN IoErr(<<"IOError", "open", listing[k]>>)
    ELSE IF ~Deserialize(fs[listing[k]]).ok
    THEN IoErr(<<"ParseError", listing[k]>>)
    ELSE ReadRecords(fs, locked, listing, k + 1,
                     Append(result, Deserialize(fs[listing[k]]).val))

read_cases(exists, fs, locked, order, io) ==
    IF ~list_files_in_subfolder(exists, fs, order, io).ok
    THEN IoErr(list_files_in_subfolder(exists, fs, order, io).err)
    ELSE ReadRecords(fs, locked, ReadDir(fs, order), 1, <<>>)

----------------------------------------------------------------------------
(* Values the variables of the other programs hold while one program runs. *)

IdleProg ==
    /\ discover = TRUE
    /\ dirExists = FALSE
    /\ files = <<>>
    /\ unreadable = {}
    /\ dirOrder = "asc"
    /\ disk = "ok"
    /\ cases = <<>>
    /\ idx = 0
    /\ ran = <<>>
    /\ res = Ok
    /\ persistRes = <<>>
    /\ printed = <<>>
    /\ created = <<>>
    /\ extOps = 0

----------------------------------------------------------------------------
(* The Diagram Verifier applied to every FSD of the bounded set. *)

InitFSD ==
    /\ pc = "call"
    /\ \E nm \in Shapes(MaxCells) :
           \E s \in SegsOfShape(nm[1], nm[2]), c \in CornersOfShape(nm[1], nm[2]) :
               input = MakeFSD(nm[1], nm[2], s, c)
    /\ output = Ok
    /\ IdleProg

VerifyFSD ==
    /\ pc = "call"
    /\ pc' = "returned"
    /\ output' = check_corner_consistency(input)
    /\ UNCHANGED <<input, progVars>>

NextFSD == VerifyFSD

SpecFSD == InitFSD /\ [][NextFSD]_vars

(* What the rule of the verifier asks of one lattice vertex, stated edge by *)
(* edge.                                                                   *)

Coords(fsd) == (0..(fsd.n - 1)) \X (0..(fsd.m - 1))

\* The row of vertex ij along the axis, and the height of that axis.
RowOf(ij, axis) == IF axis = 0 THEN ij[2] ELSE ij[1]
ColOf(ij, axis) == IF axis = 0 THEN ij[1] ELSE ij[2]
HasCurrEdge(fsd, ij, axis) == RowOf(ij, axis) < fsd.dims[axis + 1][2]
HasPrevEdge(fsd, ij, axis) == RowOf(ij, axis) > 0
CurrEdge(fsd, ij, axis) == fsd.segs[<<axis, ColOf(ij, axis), RowOf(ij, axis)>>]
PrevEdge(fsd, ij, axis) == fsd.segs[<<axis, ColOf(ij, axis), RowOf(ij, axis) - 1>>]

\* Current edge starts within EPS of 0, previous edge ends within EPS of 1.
EdgesTouch(fsd, ij, axis) ==
    /\ HasCurrEdge(fsd, ij, axis) =>
           CurrEdge(fsd, ij, axis).some /\ CurrEdge(fsd, ij, axis).a < EPS
    /\ HasPrevEdge(fsd, ij, axis) =>
           PrevEdge(fsd, ij, axis).some /\ PrevEdge(fsd, ij, axis).b >= ONE - EPS

\* Current edge starts at exactly 0, or previous edge ends at exactly 1.
EdgeTouchesExactly(fsd, ij, axis) ==
    \/ /\ HasCurrEdge(fsd, ij, axis)
       /\ CurrEdge(fsd, ij, axis).some
       /\ CurrEdge(fsd, ij, axis).a = 0
    \/ /\ HasPrevEdge(fsd, ij, axis)
       /\ PrevEdge(fsd, ij, axis).some
       /\ PrevEdge(fsd, ij, axis).b = ONE

VertexViolates(fsd, ij) ==
    \E axis \in 0..1 :
        IF fsd.corners[ij]
        THEN ~EdgesTouch(fsd, ij, axis)
        ELSE EdgeTouchesExactly(fsd, ij, axis)

\* Scan order: j outer, i inner.
ScansBefore(p, q) == p[2] < q[2] \/ (p[2] = q[2] /\ p[1] < q[1])

TrueCornerWithoutCurrent(fsd, ij) ==
    /\ fsd.corners[ij]
    /\ \E axis \in 0..1 :
           HasCurrEdge(fsd, ij, axis) /\ ~CurrEdge(fsd, ij, axis).some

\* C9 as stated: in an FSD the verifier accepts, at every vertex and axis
\* with an incident edge, the corner is true iff the current edge starts
\* within EPS of 0 and the previous edge ends within EPS of 1; and a true
\* corner without a boundary on its current edge is rejected, the violation
\* naming that vertex.
C9_IffBothDirections ==
    pc = "returned" =>
        /\ output.ok =>
               \A ij \in Coords(input), axis \in 0..1 :
                   (HasCurrEdge(input, ij, axis) \/ HasPrevEdge(input, ij, axis)) =>
                       (input.corners[ij] <=> EdgesTouch(input, ij, axis))
        /\ \A ij \in Coords(input) :
               TrueCornerWithoutCurrent(input, ij) =>
                   ~output.ok /\ output.err[3] = ij

\* C9 amended: the verifier accepts an FSD iff no vertex violates the rule
\* "true corner: every incident current edge has a boundary starting below
\* EPS and every incident previous edge has one ending at or above 1-EPS;
\* false corner: no incident current boundary starts at exactly 0 and no
\* incident previous boundary ends at exactly 1".  A rejection names the
\* first violating vertex in scan order, so a true corner without a boundary
\* on its current edge is always rejected and is the vertex named when no
\* vertex scanned before it violates the rule.
C9_CornerRule ==
    pc = "returned" =>
        /\ output.ok <=> \A ij \in Coords(input) : ~VertexViolates(input, ij)
        /\ output.ok =>
               \A ij \in Coords(input), axis \in 0..1 :
                   /\ input.corners[ij] => EdgesTouch(input, ij, axis)
                   /\ ~input.corners[ij] => ~EdgeTouchesExactly(input, ij, axis)
        /\ ~output.ok =>
               /\ output.err[3] \in Coords(input)
               /\ VertexViolates(input, output.err[3])
               /\ \A ij \in Coords(input) :
                      VertexViolates(input, ij) => ~ScansBefore(ij, output.err[3])
        /\ \A ij \in Coords(input) :
               TrueCornerWithoutCurrent(input, ij) => ~output.ok

\* An accepted FSD with a true corner that has a current edge on both axes,
\* a true corner that has a previous edge, and a false corner whose current
\* edge starts inside (0, EPS).
C9_Witness ==
    /\ pc = "returned"
    /\ output.ok
    /\ \E ij \in Coords(input) :
           /\ input.corners[ij]
           /\ HasCurrEdge(input, ij, 0)
           /\ HasCurrEdge(input, ij, 1)
    /\ \E ij \in Coords(input), axis \in 0..1 :
           /\ input.corners[ij]
           /\ HasPrevEdge(input, ij, axis)
    /\ \E ij \in Coords(input), axis \in 0..1 :
           /\ ~input.corners[ij]
           /\ HasCurrEdge(input, ij, axis)
           /\ CurrEdge(input, ij, axis).some
           /\ CurrEdge(input, ij, axis).a > 0
           /\ CurrEdge(input, ij, axis).a < EPS

----------------------------------------------------------------------------
(* The Path Validator applied to every non-empty, in-bounds Steps sequence *)
(* of the bounded set.                                                     *)

InitSteps ==
    /\ pc = "call"
    /\ input \in [c1 : Curves, c2 : Curves, steps : StepSeqs, eps : 0..MaxEps]
    /\ output = Ok
    /\ IdleProg

VerifySteps ==
    /\ pc = "call"
    /\ pc' = "returned"
    /\ output' = check_steps(input.c1, input.c2, input.steps, input.eps)
    /\ UNCHANGED <<input, progVars>>

NextSteps == VerifySteps

SpecSteps == InitSteps /\ [][NextSteps]_vars

\* (a): every consecutive pair of steps is non-decreasing in both coordinates.
IsMonotone(steps) ==
    \A k \in 1..(Len(steps) - 1) :
        steps[k][1] <= steps[k + 1][1] /\ steps[k][2] <= steps[k + 1][2]

\* The point of curve c at the parameter t half units, in half ticks.
MatchedPoint(c, t) ==
    IF t % 2 = 0
    THEN <<2 * c[(t \div 2) + 1][1], 2 * c[(t \div 2) + 1][2]>>
    ELSE <<c[((t - 1) \div 2) + 1][1] + c[((t - 1) \div 2) + 2][1],
           c[((t - 1) \div 2) + 1][2] + c[((t - 1) \div 2) + 2][2]>>

\* (b): at every step the two matched points are closer than eps + EPS.
IsWithin(c1, c2, steps, eps) ==
    \A k \in 1..Len(steps) :
        LET p == MatchedPoint(c1, steps[k][1])
            q == MatchedPoint(c2, steps[k][2])
        IN  (p[1] - q[1]) * (p[1] - q[1]) + (p[2] - q[2]) * (p[2] - q[2])
                < 4 * (eps + EPS) * (eps + EPS)

FirstDecrease(steps) ==
    CHOOSE k \in 1..(Len(steps) - 1) :
        /\ steps[k][1] > steps[k + 1][1] \/ steps[k][2] > steps[k + 1][2]
        /\ \A l \in 1..(k - 1) :
               steps[l][1] <= steps[l + 1][1] /\ steps[l][2] <= steps[l + 1][2]

----------------------------------------------------------------------------
(* One trial on every combination of engine answers and rendering          *)
(* outcomes of the bounded sets.                                           *)

BaseCurve == << <<0, 0>>, <<MaxCoord, 0>> >>

TrialStates ==
    {[ps |-> BaseCurve, qs |-> q, eps |-> 0] :
        q \in {BaseCurve, << <<0, MaxCoord>>, <<MaxCoord, 0>> >>}}

TrialFSDs == FSDs(2)

\* Witness paths of at most two points starting at the diagram origin.
TrialSteps == {s \in StepSeqsUpTo(2) : s[1] = <<0, 0>>}

EngineAnswers ==
    [fsd : TrialFSDs,
     steps : {NoSteps, StepsError} \cup {SomeSteps(s) : s \in TrialSteps},
     partial : BOOLEAN]

Renderings == [curves : BOOLEAN, fsd : BOOLEAN, rsd : BOOLEAN, path : BOOLEAN]

AllRendered == [curves |-> TRUE, fsd |-> TRUE, rsd |-> TRUE, path |-> TRUE]

InitTrial ==
    /\ pc = "call"
    /\ input \in [state : TrialStates, eng : EngineAnswers, rend : Renderings]
    /\ output = Ok
    /\ IdleProg

RunTrial ==
    /\ pc = "call"
    /\ pc' = "returned"
    /\ output' = run_test(input.state, input.eng, input.rend)
    /\ UNCHANGED <<input, progVars>>

NextTrial == RunTrial

SpecTrial == InitTrial /\ [][NextTrial]_vars

\* The four failing stages of a trial, in their order.
DiagramFails(eng) == ~check_corner_consistency(eng.fsd).ok
ExtractionFails(eng) == eng.steps.kind = "err"
WitnessAbsent(eng) == eng.partial /\ eng.steps.kind = "none"
PathFails(state, eng) ==
    /\ eng.partial
    /\ eng.steps.kind = "some"
    /\ ~check_steps(state.ps, state.qs, eng.steps.val, state.eps).ok

Made(name) == \E k \in 1..Len(output.calls) : output.calls[k] = name

\* Every engine call and verifier of a trial, in program order.
EngineAndVerifierCalls ==
    <<"FSD_new", "check_corner_consistency", "to_rsd", "pcm_steps", "check_pcm",
      "check_steps">>

CallsAfter(name) ==
    LET k == CHOOSE n \in 1..Len(EngineAndVerifierCalls) :
                 EngineAndVerifierCalls[n] = name
    IN  {EngineAndVerifierCalls[n] : n \in (k + 1)..Len(EngineAndVerifierCalls)}

\* C3: the result of a trial is the error of the first failing stage in the
\* order diagram verifier, witness extraction, witness absent although a
\* partial match is reported, path validator; no engine call or verifier is
\* made after the failing stage; with no failing stage the trial passes, and
\* without a partial match the path validator is not run.
C3_FirstFailingStage ==
    pc = "returned" =>
        LET st == input.state
            eng == input.eng
        IN  /\ DiagramFails(eng) =>
                   /\ output.res = check_corner_consistency(eng.fsd)
                   /\ Made("check_corner_consistency")
                   /\ \A c \in CallsAfter("check_corner_consistency") : ~Made(c)
            /\ (~DiagramFails(eng) /\ ExtractionFails(eng)) =>
                   /\ output.res = Err(<<"EngineError">>)
                   /\ Made("pcm_steps")
                   /\ \A c \in CallsAfter("pcm_steps") : ~Made(c)
            /\ (~DiagramFails(eng) /\ ~ExtractionFails(eng) /\ WitnessAbsent(eng)) =>
                   /\ output.res = Err(<<"ShouldFindSteps">>)
                   /\ Made("check_pcm")
                   /\ ~Made("check_steps")
            /\ (~DiagramFails(eng) /\ ~ExtractionFails(eng) /\ PathFails(st, eng)) =>
                   /\ output.res =
                          check_steps(st.ps, st.qs, eng.steps.val, st.eps)
                   /\ Made("check_steps")
            /\ (/\ ~DiagramFails(eng)
                /\ ~ExtractionFails(eng)
                /\ ~WitnessAbsent(eng)
                /\ ~PathFails(st, eng)) =>
                   /\ output.res = Ok
                   /\ Made("check_pcm")
                   /\ ~eng.partial => ~Made("check_steps")

\* A trial whose diagram is rejected although the engine's other answers
\* would fail later stages too.
C3_Witness ==
    /\ pc = "returned"
    /\ DiagramFails(input.eng)
    /\ ExtractionFails(input.eng)
    /\ input.eng.partial
    /\ ~output.res.ok

RenderingCalls == {"draw_curves", "draw_fsd", "draw_rsd", "draw_path"}

\* C4: whichever rendering calls fail, run_test returns the result, and
\* makes the engine calls and verifier calls, of the trial in which every
\* rendering call succeeds; no rendering failure is the trial's error.
C4_RenderingNeverDecides ==
    pc = "returned" =>
        /\ output.res = run_test(input.state, input.eng, AllRendered).res
        /\ output.calls = run_test(input.state, input.eng, AllRendered).calls
        /\ output.res.ok \/ output.res.err[1] # "RenderError"
        /\ (~DiagramFails(input.eng) /\ ~ExtractionFails(input.eng)) =>
               \A c \in RenderingCalls \cup {"to_rsd", "pcm_steps", "check_pcm"} :
                   Made(c)

\* A trial in which all four rendering calls fail and the path validator
\* still runs and rejects the witness.
C4_Witness ==
    /\ pc = "returned"
    /\ ~input.rend.curves
    /\ ~input.rend.fsd
    /\ ~input.rend.rsd
    /\ ~input.rend.path
    /\ Made("check_steps")
    /\ ~output.res.ok
    /\ output.res.err[1] \in {"Decreasing", "Distance"}

----------------------------------------------------------------------------
(* The case store under sequences of write_new_testcase calls, each with   *)
(* its own IO outcome, interleaved with removals of records by others.     *)

GenCurves == <<BaseCurve, << <<0, MaxCoord>>, <<MaxCoord, 0>> >> >>

\* The State main builds from one random curve: qs = ps.clone(), eps: 1.
GenCase(b) == [ps |-> GenCurves[b + 1], qs |-> GenCurves[b + 1], eps |-> ONE]

CaseVals == {GenCase(0), GenCase(1)}

InitStore ==
    /\ pc = "store"
    /\ input = <<>>
    /\ output = Ok
    /\ discover = TRUE
    /\ dirExists \in BOOLEAN
    /\ files = <<>>
    /\ unreadable = {}
    /\ dirOrder = "asc"
    /\ disk = "ok"
    /\ cases = <<>>
    /\ idx = 0
    /\ ran = <<>>
    /\ res = Ok
    /\ persistRes = <<>>
    /\ printed = <<>>
    /\ created = <<>>
    /\ extOps = 0

Persist ==
    /\ pc = "store"
    /\ idx + extOps < MaxCalls
    /\ \E state \in CaseVals, io \in IOOutcomes :
           LET w == write_new_testcase(dirExists, files, dirOrder, state, io)
           IN  /\ dirExists' = w.exists
               /\ files' = w.files
               /\ persistRes' = <<w.res>>
               /\ created' = Append(created, [name |-> w.name, ok |-> w.res.ok])
               /\ disk' = io
               /\ input' = state
    /\ idx' = idx + 1
    /\ UNCHANGED <<pc, output, discover, unreadable, dirOrder, cases, ran, res,
                   printed, extOps>>

\* Another process removes a record from testdata.
ExternalRemove ==
    /\ pc = "store"
    /\ idx + extOps < MaxCalls
    /\ \E gone \in DOMAIN files :
           files' = [f \in DOMAIN files \ {gone} |-> files[f]]
    /\ extOps' = extOps + 1
    /\ UNCHANGED <<pc, input, output, discover, dirExists, unreadable, dirOrder,
                   disk, cases, idx, ran, res, persistRes, printed, created>>

NextStore == Persist \/ ExternalRemove

SpecStore == InitStore /\ [][NextStore]_vars

\* C1 as stated: every record present before a write_new_testcase call is
\* still present, with its content unchanged, after the call, also when
\* records were removed externally between the calls.
C1_NeverOverwrites ==
    [][idx' = idx + 1 =>
           \A f \in DOMAIN files : f \in DOMAIN files' /\ files'[f] = files[f]]_vars

AllCallsSucceeded == \A k \in 1..Len(created) : created[k].ok

\* C2: from an empty or absent testdata, after idx calls that all succeeded
\* and with no other writer, testdata holds exactly case_0.bin ..
\* case_(idx-1).bin, the k-th call having created case_(k-1).bin; and a call
\* whose IO succeeds returns Ok also when testdata exists already.
C2_MonotonicNaming ==
    pc = "store" =>
        /\ (extOps = 0 /\ AllCallsSucceeded) =>
               /\ DOMAIN files = {CaseName(k - 1) : k \in 1..idx}
               /\ \A k \in 1..idx : created[k].name = CaseName(k - 1)
               /\ idx > 0 => dirExists
        /\ (idx > 0 /\ disk = "ok") => persistRes[1].ok

\* Three successful calls in a row.
C2_Witness ==
    /\ pc = "store"
    /\ idx = 3
    /\ extOps = 0
    /\ AllCallsSucceeded
    /\ Cardinality(DOMAIN files) = 3

----------------------------------------------------------------------------
(* The driver: main.  pc is "start" (before the case list is built),       *)
(* "loop" (inside the for loop), "done" (main returned Ok) or "aborted"    *)
(* (main returned the error of read_cases).                                *)

\* (0..RUN_COUNT).map(..).collect(): the curves drawn depend on the state of
\* the random generator only, here a seed.
Generate(seed) == [k \in 1..RUN_COUNT |-> GenCase((seed + k) % 2)]

\* r.truncate(RUN_COUNT)
Truncate(r, n) == [k \in 1..Min(Len(r), n) |-> r[k]]

\* Records case_0.bin .. case_(k-1).bin as the harness itself wrote them.
WrittenCorpus(k) == [f \in {CaseName(n) : n \in 0..(k - 1)} |-> Serialize(GenCase(f[2] % 2))]

\* A corpus of up to RUN_COUNT + 1 records, of which at most one is cut
\* short and at most one cannot be opened.
ReplayCorpora ==
    {[exists |-> FALSE, files |-> <<>>, locked |-> {}]}
        \cup {[exists |-> TRUE, files |-> WrittenCorpus(k), locked |-> {}] :
                  k \in 0..(RUN_COUNT + 1)}
        \cup UNION {{[exists |-> TRUE,
                      files |-> [WrittenCorpus(k) EXCEPT ![bad] = Truncated],
                      locked |-> {}] : bad \in DOMAIN WrittenCorpus(k)} :
                        k \in 0..(RUN_COUNT + 1)}
        \cup UNION {{[exists |-> TRUE, files |-> WrittenCorpus(k), locked |-> {bad}] :
                        bad \in DOMAIN WrittenCorpus(k)} : k \in 0..(RUN_COUNT + 1)}

\* No directory, or a directory holding any of the records case_0.bin and
\* case_1.bin (others may have removed records of an earlier run).
DiscoverCorpora ==
    {[exists |-> FALSE, files |-> <<>>, locked |-> {}]}
        \cup {[exists |-> TRUE,
               files |-> [f \in S |-> WrittenCorpus(2)[f]],
               locked |-> {}] : S \in SUBSET DOMAIN WrittenCorpus(2)}

\* What the engine answers in the trials of the driver: a trial that passes,
\* a rejected diagram, a failed extraction, a non-monotone witness.
PassingAnswer ==
    [fsd |-> [n |-> 1, m |-> 1, dims |-> Dims(1, 1), segs |-> <<>>,
              corners |-> [ij \in {<<0, 0>>} |-> TRUE]],
     steps |-> SomeSteps(<< <<0, 0>>, <<2, 2>> >>),
     partial |-> TRUE]

DriverAnswers ==
    {PassingAnswer,
     [PassingAnswer EXCEPT
          !.fsd = [n |-> 1, m |-> 2, dims |-> Dims(1, 2),
                   segs |-> [e \in {<<0, 0, 0>>} |-> NoBoundary],
                   corners |-> [ij \in {<<0, 0>>, <<0, 1>>} |-> TRUE]]],
     [PassingAnswer EXCEPT !.steps = StepsError],
     [PassingAnswer EXCEPT !.steps = SomeSteps(<< <<2, 2>>, <<0, 0>> >>)]}

DriverRenderings ==
    {AllRendered,
     [curves |-> FALSE, fsd |-> FALSE, rsd |-> FALSE, path |-> FALSE]}

InitMain ==
    /\ pc = "start"
    /\ input = <<>>
    /\ output = Ok
    /\ discover \in BOOLEAN
    /\ \E c \in IF discover THEN DiscoverCorpora ELSE ReplayCorpora :
           /\ dirExists = c.exists
           /\ files = c.files
           /\ unreadable = c.locked
    /\ dirOrder \in IF discover THEN {"asc"} ELSE {"asc", "desc"}
    /\ disk \in IF discover THEN IOOutcomes ELSE {"ok", "list_err"}
    /\ cases = <<>>
    /\ idx = 0
    /\ ran = <<>>
    /\ res = Ok
    /\ persistRes = <<>>
    /\ printed = <<>>
    /\ created = <<>>
    /\ extOps = 0

\* Lines 379-393: the case list, or main's return of the error of read_cases.
Setup ==
    /\ pc = "start"
    /\ IF discover
       THEN /\ \E seed \in 0..1 : cases' = Generate(seed)
            /\ pc' = "loop"
            /\ output' = output
       ELSE LET r == read_cases(dirExists, files, unreadable, dirOrder, disk)
            IN  IF r.ok
                THEN /\ cases' = Truncate(r.val, RUN_COUNT)
                     /\ pc' = "loop"
                     /\ output' = output
                ELSE /\ cases' = cases
                     /\ pc' = "aborted"
                     /\ output' = Err(r.err)
    /\ printed' = <<>>
    /\ persistRes' = <<>>
    /\ UNCHANGED <<input, discover, dirExists, files, unreadable, dirOrder, disk,
                   idx, ran, res, created, extOps>>

\* The loop ends at the first failing trial.
AfterTrialStopOnFailure(r) == IF r.ok THEN "loop" ELSE "done"

\* The position of main after the body of the loop ran with res_test = r.
AfterTrial(r) == "loop"

\* write_new_testcase is called whenever the trial failed.
PersistsAlways(mode, r) == ~r.ok

\* Lines 397-407: whether the body of the loop calls write_new_testcase.
Persists(mode, r) == ~r.ok /\ mode

\* Lines 395-408: one iteration of the loop.
Trial ==
    /\ pc = "loop"
    /\ idx < Len(cases)
    /\ \E eng \in DriverAnswers, rend \in DriverRenderings :
           LET case == cases[idx + 1]
               t == run_test(case, eng, rend)
               w == write_new_testcase(dirExists, files, dirOrder, case, disk)
           IN  /\ res' = t.res
               /\ IF Persists(discover, t.res)
                  THEN /\ dirExists' = w.exists
                       /\ files' = w.files
                       /\ persistRes' = <<w.res>>
                       /\ created' = Append(created, [name |-> w.name, ok |-> w.res.ok])
                  ELSE /\ persistRes' = <<>>
                       /\ UNCHANGED <<dirExists, files, created>>
               /\ printed' =
                      t.printed
                          \o (IF t.res.ok
                              THEN <<>>
                              ELSE << <<"Test case failed", idx>>, t.res.err >>)
               /\ pc' = AfterTrial(t.res)
    /\ ran' = Append(ran, idx)
    /\ idx' = idx + 1
    /\ UNCHANGED <<input, output, discover, unreadable, dirOrder, disk, cases, extOps>>

\* The case list is exhausted: main returns Ok(()).
Finish ==
    /\ pc = "loop"
    /\ idx = Len(cases)
    /\ pc' = "done"
    /\ printed' = <<>>
    /\ persistRes' = <<>>
    /\ UNCHANGED <<input, output, discover, dirExists, files, unreadable, dirOrder,
                   disk, cases, idx, ran, res, created, extOps>>

Next == Setup \/ Trial \/ Finish

Spec == InitMain /\ [][Next]_vars

\* main is sequential and runs to completion: its steps are taken.
FairSpec == Spec /\ WF_vars(Setup \/ Trial \/ Finish)

----------------------------------------------------------------------------
(* Claims about the driver.                                                *)

\* A step that is one iteration of the loop.
TrialStep == pc = "loop" /\ idx' = idx + 1

\* The name write_new_testcase chooses in the current state.
NextName == CaseName(Cardinality(DOMAIN files))

\* C5 as stated: the corpus changes only in a failing Discover trial, a
\* passing trial and every Replay trial leave it unchanged, each failing
\* Discover trial adds exactly one record holding that trial's TestCase
\* verbatim and no step deletes a record.  (Stated for the trials in which
\* the name chosen is free, so that a violation does not rest on C1.)
C5_EachFailureAddsOneRecord ==
    [][/\ files' # files => (TrialStep /\ discover /\ ~res'.ok)
       /\ (TrialStep /\ (res'.ok \/ ~discover)) => files' = files
       /\ (TrialStep /\ discover /\ ~res'.ok /\ NextName \notin DOMAIN files) =>
              /\ DOMAIN files' = DOMAIN files \cup {NextName}
              /\ files'[NextName] = Serialize(cases[idx + 1])
              /\ \A g \in DOMAIN files : files'[g] = files[g]
       /\ DOMAIN files \subseteq DOMAIN files']_vars

\* C5 amended: the corpus changes only in a failing Discover trial; a
\* passing trial and every Replay trial leave it unchanged and call no
\* write_new_testcase; each failing Discover trial calls it exactly once,
\* and the call touches no record but case_<N>.bin, N the number of files
\* listed: when it returns Ok that record holds the trial's TestCase
\* verbatim, when it returns an IO error the record is absent, as it was, or
\* cut short; no step removes a name from the corpus.
C5_CorpusFrame ==
    [][/\ (files' # files \/ dirExists' # dirExists) =>
              (TrialStep /\ discover /\ ~res'.ok)
       /\ (TrialStep /\ (res'.ok \/ ~discover)) =>
              (files' = files /\ persistRes' = <<>> /\ created' = created)
       /\ (TrialStep /\ discover /\ ~res'.ok) =>
              /\ Len(persistRes') = 1
              /\ Len(created') = Len(created) + 1
              /\ DOMAIN files' \subseteq DOMAIN files \cup {NextName}
              /\ \A g \in DOMAIN files \ {NextName} : files'[g] = files[g]
              /\ persistRes'[1].ok =>
                     /\ NextName \in DOMAIN files'
                     /\ files'[NextName] = Serialize(cases[idx + 1])
              /\ (~persistRes'[1].ok /\ NextName \in DOMAIN files') =>
                     \/ files'[NextName] = Truncated
                     \/ NextName \in DOMAIN files /\ files'[NextName] = files[NextName]
       /\ DOMAIN files \subseteq DOMAIN files']_vars

\* After a second failing Discover trial whose case was persisted verbatim.
C5_Witness ==
    /\ pc = "loop"
    /\ discover
    /\ idx >= 2
    /\ ~res.ok
    /\ Len(created) >= 2
    /\ Len(persistRes) = 1
    /\ persistRes[1].ok
    /\ created[Len(created)].name \in DOMAIN files
    /\ files[created[Len(created)].name] = Serialize(cases[idx])

\* C6 as stated: when write_new_testcase fails with an IO error after a
\* failing Discover trial, the error is reported to the user, and the loop
\* goes on.
C6_PersistErrorReported ==
    (Len(persistRes) = 1 /\ ~persistRes[1].ok) =>
        /\ pc = "loop"
        /\ \E k \in 1..Len(printed) : printed[k][1] = persistRes[1].err[1]

\* Whether the bytes are a record the harness wrote.
IsRecord(bytes) == \E c \in CaseVals : bytes = Serialize(c)

LoadFails ==
    \/ ~dirExists
    \/ disk = "list_err"
    \/ \E f \in DOMAIN files : f \in unreadable \/ ~IsRecord(files[f])

\* C7: in Replay mode, if testdata cannot be listed or a listed record cannot
\* be opened or parsed, read_cases returns an error and no case, main
\* returns that error, no trial is run and nothing is persisted; otherwise
\* read_cases returns one State per listed record, in listing order (and
\* main keeps the first RUN_COUNT of them).
C7_LoadAllOrNothing ==
    (~discover /\ pc # "start") =>
        LET r == read_cases(dirExists, files, unreadable, dirOrder, disk)
            listing == ReadDir(files, dirOrder)
        IN  /\ created = <<>>
            /\ IF LoadFails
               THEN /\ ~r.ok
                    /\ r.val = <<>>
                    /\ pc = "aborted"
                    /\ output = Err(r.err)
                    /\ cases = <<>>
                    /\ ran = <<>>
               ELSE /\ r.ok
                    /\ Len(r.val) = Cardinality(DOMAIN files)
                    /\ \A k \in 1..Len(r.val) : Serialize(r.val[k]) = files[listing[k]]
                    /\ pc \in {"loop", "done"}
                    /\ output = Ok
                    /\ Len(cases) = Min(Len(r.val), RUN_COUNT)
                    /\ \A k \in 1..Len(cases) : cases[k] = r.val[k]

\* A run aborted by one record cut short among records that parse.
C7_Witness ==
    /\ ~discover
    /\ pc = "aborted"
    /\ Cardinality(DOMAIN files) >= 3
    /\ unreadable = {}
    /\ disk = "ok"
    /\ \E f \in DOMAIN files : files[f] = Truncated

\* C8: once the case list is set up, the loop runs every case of it exactly
\* once, in index order, and then main returns, however many trials fail;
\* the list has RUN_COUNT cases in Discover mode and min(number of records,
\* RUN_COUNT) in Replay mode.
C8_RunsEveryCase ==
    /\ [](pc \in {"loop", "done"} =>
              Len(cases) = IF discover
                           THEN RUN_COUNT
                           ELSE Min(Cardinality(DOMAIN files), RUN_COUNT))
    /\ [](ran = [k \in 1..idx |-> k - 1] /\ idx <= Len(cases))
    /\ [](pc = "done" => idx = Len(cases))
    /\ (pc = "loop") ~> (pc = "done" /\ ran = [k \in 1..Len(cases) |-> k - 1])

\* A Discover run that finished all RUN_COUNT trials, the last one and at
\* least two earlier ones having failed.
C8_Witness ==
    /\ pc = "done"
    /\ discover
    /\ Len(ran) = RUN_COUNT
    /\ ~res.ok
    /\ Len(created) >= 3

====
